---- MODULE Spec2Model ----
(***************************************************************************)
(* A model of the agency control plane of backend/agency.py and the HTTP   *)
(* handlers of backend/server.py: the agent tree, the tools an agent's     *)
(* backend may call while it runs, the meeting round loop, the state file  *)
(* an agency is saved to and loaded from, and the MCP server manager.      *)
(*                                                                         *)
(* Python objects are modelled by references.  An Agent object is named by *)
(* its id string (ids are never reused inside one Agency, the id counter   *)
(* only grows).  The fields of all objects ever constructed live in the    *)
(* functions parent_id, children, accessible_tools and message_history,    *)
(* whose common domain is the set of constructed objects; `agents` is the  *)
(* dict Agency.agents, from key to object.  An object deleted from the     *)
(* dict keeps its fields: the meeting and a parent's children dict may     *)
(* still hold it.                                                          *)
(*                                                                         *)
(* The handlers are asyncio coroutines: a handler runs atomically between  *)
(* two of its awaits.  One action is therefore the code from one           *)
(* suspension point to the next.                                           *)
(***************************************************************************)
EXTENDS Integers, Sequences, FiniteSets, TLC

VARIABLES
    agents,            \* Agency.agents: key -> object
    parent_id,         \* Agent.parent_id of every object
    children,          \* Agent.children of every object (dict: keys in order)
    accessible_tools,  \* Agent.accessible_tools of every object
    message_history,   \* Agent.message_history of every object
    mcp_server_ids,    \* Agent.mcp_server_ids of every object
    current_id,        \* Agency.current_id
    stack,             \* the Agent.run invocations in flight, innermost last
    meeting,           \* the locals of the call_meeting coroutine
    nmsg,              \* number of /agent/{id}/message requests served
    nmeet,             \* number of meetings started
    nrem,              \* number of DELETE /agent/{id} requests served
    live,              \* app.state.agency is an Agency (not None)
    state_file,        \* the state file in SAVE_DIR that a start may load
    servers,           \* MCPServerManager.servers: the registered ids
    running,           \* MCPServerManager._running_servers
    server_task,       \* MCPServerManager._server_tasks: id -> task
    alive,             \* this manager's _run_server tasks that have not ended
    starting,          \* start_server calls asleep in their start-up wait
    ntask,             \* number of _run_server tasks created
    closing,           \* the locals of a shutdown in progress
    clock,             \* time.time(), counted from the readiness check's call
    ready,             \* the locals of a wait_for_server_ready call
    parked             \* the stack and the meeting of the message request
                       \* that is suspended while the other one runs

vars == <<agents, parent_id, children, accessible_tools, message_history,
          mcp_server_ids, current_id, stack, meeting, nmsg, nmeet, nrem, live, state_file,
          servers, running, server_task, alive, starting, ntask, closing,
          clock, ready, parked>>

\* the server manager
manager == <<servers, running, server_task, alive, starting, ntask,
             closing>>

\* what the tree operations, the tools and the meeting leave alone
aside == <<live, state_file, manager, clock, ready, parked>>

counters == <<nmsg, nmeet, nrem>>

tree == <<agents, parent_id, children, accessible_tools, message_history,
          mcp_server_ids, current_id>>

-----------------------------------------------------------------------------
(* Bounds of the model *)

\* ids "0" .. MaxId-1 can be allocated in Spec
MaxId == 3
\* ids "0" .. MaxTreeId-1 can be allocated in SpecTree
MaxTreeId == 11
\* ids "0" .. MaxRoundsId-1 can be allocated in SpecRounds
MaxRoundsId == 2
\* DELETE requests the server accepts in one behaviour
MaxRemoves == 1
\* message requests the server accepts in one behaviour
MaxMessages == 2
\* tool calls the runs of one message request make
MaxToolCalls == 1
\* meetings started in one behaviour
MaxMeetings == 1
\* meetings started in one behaviour of SpecOverlap
MaxOverlapMeetings == 2
\* _run_server tasks created in one behaviour
MaxTasks == 3
\* DELETE requests the server accepts in one behaviour of SpecLinks
MaxLinksRemoves == 2
MaxClock == 6

(* Program constants *)
max_depth == 3
max_breadth == 3
max_agents == 10
ROUND_CEILING == 15

-----------------------------------------------------------------------------
(* Values *)

None == "None"

\* str(n) of Agency.next_id
IdStr(n) ==
    <<"0", "1", "2", "3", "4", "5", "6", "7", "8", "9", "10", "11", "12",
      "13", "14", "15">>[n + 1]

\* host_id + "_temp"
TempId(host_id) == host_id \o "_temp"

Min(a, b) == IF a <= b THEN a ELSE b

Remove(seq, x) == SelectSeq(seq, LAMBDA y : y # x)

Range(seq) == {seq[i] : i \in 1..Len(seq)}

ToolNames == {"create_new_agent", "message_agent", "call_meeting",
              "internal_monologue"}

\* accessible_tools is a dict name -> bool whose values are all True in the
\* code (no code path stores False), or the list [] that
\* create_new_agent_helper passes.
ToolsDict(names) == [type |-> "dict", on |-> names]
ToolsList == [type |-> "list", on |-> {}]

\* default argument of Agent.__init__
DefaultAccessibleTools == ToolsDict(ToolNames)

\* accessible_tools of the main agent
MainAccessibleTools == ToolsDict(ToolNames)

\* history entries: <<kind, speaker, text>>
SystemEntry == <<"system", "", <<"system_prompt">>>>
UserEntry(text) == <<"user", "", text>>

-----------------------------------------------------------------------------
(* The tree *)

Objects == DOMAIN parent_id

KeyError == -1

\* Agent.curr_depth: 0 without parent, else the parent's depth + 1, looked up
\* in Agency.agents (KeyError when the parent's key is gone)
RECURSIVE curr_depth(_)
curr_depth(ref) ==
    IF parent_id[ref] = None THEN 0
    ELSE IF parent_id[ref] \notin DOMAIN agents THEN KeyError
    ELSE LET d == curr_depth(agents[parent_id[ref]])
         IN  IF d = KeyError THEN KeyError ELSE d + 1

curr_breadth(ref) == Len(children[ref])

IdleMeeting == [pc |-> "idle"]

\* the ids Agency._setup_mcp_servers registers
ServerIds == {"mcp_server_playwright", "mcp_server_python"}

\* no entry in _server_tasks
NoTask == 0

\* no state file (from_state_file is None, SAVE_DIR is empty)
NoState == [kind |-> "None"]

\* no shutdown is in progress.  then is what the handler does when the
\* shutdown has returned; stopped is a history field: the stop_server calls
\* of the last shutdown that have returned, with their results.
NotClosing == [pc |-> "idle", todo |-> <<>>, server_id |-> "",
               task |-> [server |-> "", n |-> 0],
               then |-> [kind |-> "none", file |-> NoState], stopped |-> <<>>]

\* no wait_for_server_ready call has been made
NoCall == [pc |-> "idle", server_id |-> "", timeout |-> 0, interval |-> 0,
           start |-> 0, wake |-> 0, probes |-> 0, returned_at |-> 0,
           result |-> FALSE]

Init ==
    /\ agents = ("0" :> "0")
    /\ parent_id = ("0" :> None)
    /\ children = ("0" :> <<>>)
    /\ accessible_tools = ("0" :> MainAccessibleTools)
    /\ message_history = ("0" :> <<SystemEntry>>)
    /\ mcp_server_ids = ("0" :> <<>>)
    /\ current_id = 1
    /\ stack = <<>>
    /\ meeting = IdleMeeting
    /\ nmsg = 0
    /\ nmeet = 0
    /\ nrem = 0
    /\ live = TRUE
    /\ state_file = NoState
    /\ servers = ServerIds
    /\ running = [id \in ServerIds |-> FALSE]
    /\ server_task = [id \in ServerIds |-> NoTask]
    /\ alive = {}
    /\ starting = [id \in ServerIds |-> 0]
    /\ ntask = 0
    /\ closing = NotClosing
    /\ clock = 0
    /\ ready = NoCall
    /\ parked = [stack |-> <<>>, meeting |-> IdleMeeting]

\* the parent a created agent is linked under: the id given if it is a key
\* of Agency.agents, else none
LinkedParent(parent) == IF parent \in DOMAIN agents THEN parent ELSE None

\* Agency.default_mcp_servers is set by _setup_mcp_servers, which also
\* registers the servers and which only a fresh Agency calls; nothing
\* unregisters a server.
HasDefaultServers == servers # {}

\* Agency.default_mcp_servers
default_mcp_servers == <<"mcp_server_playwright", "mcp_server_python">>

\* POST /agent/create.  req_parent is the request's parent_id (None when
\* absent); no capacity is checked.  In an agency loaded from a state file the
\* read of agency.default_mcp_servers raises AttributeError after next_id().
create_agent(req_parent) ==
    LET parent == IF req_parent = None THEN "0" ELSE req_parent
        new_agent_id == IdStr(current_id)
        linked == LinkedParent(parent)
    IN  /\ live
        /\ closing.pc = "idle"
        /\ current_id' = current_id + 1
        /\ UNCHANGED <<stack, meeting, counters, aside>>
        /\ IF ~HasDefaultServers
           THEN UNCHANGED <<agents, parent_id, children, accessible_tools,
                            message_history, mcp_server_ids>>
           ELSE /\ agents' = (new_agent_id :> new_agent_id) @@ agents
                /\ mcp_server_ids' =
                       (new_agent_id :> default_mcp_servers) @@ mcp_server_ids
                /\ accessible_tools' =
                       (new_agent_id :> DefaultAccessibleTools) @@
                       accessible_tools
                /\ message_history' =
                       (new_agent_id :> <<SystemEntry>>) @@ message_history
                /\ parent_id' = (new_agent_id :> linked) @@ parent_id
                /\ children' =
                       IF linked = None
                       THEN (new_agent_id :> <<>>) @@ children
                       ELSE (new_agent_id :> <<>>) @@
                            [children EXCEPT ![agents[parent]] =
                                                 Append(@, new_agent_id)]

\* remove_agent_helper, for a key of Agency.agents.  The three steps are the
\* code's; a KeyError leaves the steps before it done.
RemoveParentStep(agent_id) ==
    \* "remove from parent": result is <<ok, children>>
    LET a == agents[agent_id]
        p == parent_id[a]
    IN  IF p = None THEN <<TRUE, children>>
        ELSE IF p \notin DOMAIN agents THEN <<FALSE, children>>
        ELSE IF agent_id \notin Range(children[agents[p]])
             THEN <<FALSE, children>>
        ELSE <<TRUE, [children EXCEPT ![agents[p]] = Remove(@, agent_id)]>>

\* "change children's parent": the children, in dict order, up to the first
\* key that is missing from Agency.agents
RECURSIVE OrphanedPrefix(_)
OrphanedPrefix(child_ids) ==
    IF child_ids = <<>> THEN <<>>
    ELSE IF Head(child_ids) \notin DOMAIN agents THEN <<>>
    ELSE <<Head(child_ids)>> \o OrphanedPrefix(Tail(child_ids))

remove_agent_helper(agent_id) ==
    LET a == agents[agent_id]
        step1 == RemoveParentStep(agent_id)
        kids == children[a]
        done == OrphanedPrefix(kids)
        orphaned == {agents[c] : c \in Range(done)}
    IN  IF ~step1[1]
        THEN UNCHANGED <<agents, parent_id, children>>
        ELSE /\ children' = step1[2]
             /\ parent_id' = [o \in Objects |->
                                 IF o \in orphaned THEN None ELSE parent_id[o]]
             /\ agents' = IF Len(done) = Len(kids)
                          THEN [k \in DOMAIN agents \ {agent_id} |-> agents[k]]
                          ELSE agents

\* DELETE /agent/{agent_id}
remove_agent(agent_id) ==
    /\ live
    /\ closing.pc = "idle"
    /\ agent_id \in DOMAIN agents
    /\ remove_agent_helper(agent_id)
    /\ nrem' = nrem + 1
    /\ UNCHANGED <<accessible_tools, message_history, mcp_server_ids,
                   current_id, stack,
                   meeting, nmsg, nmeet, aside>>

-----------------------------------------------------------------------------
(* The tree operations alone, as the HTTP surface offers them *)

TreeParentInputs == {None, "1"}

TreeCreate ==
    /\ current_id < MaxTreeId
    /\ \E req_parent \in TreeParentInputs : create_agent(req_parent)

TreeRemove ==
    /\ nrem < MaxRemoves
    /\ \E agent_id \in DOMAIN agents : remove_agent(agent_id)

NextTree == TreeCreate \/ TreeRemove

SpecTree == Init /\ [][NextTree]_vars

-----------------------------------------------------------------------------
(* MCPServerManager *)

\* a _run_server task: the id it serves and its number
Task(id, n) == [server |-> id, n |-> n]

\* the task _server_tasks holds for id
CurrentTask(id) == Task(id, server_task[id])

\* the guard of stop_server
Stoppable(id) == server_task[id] # NoTask /\ running[id]

\* start_server up to its start-up wait, as Agent.run and Agency.run call it
\* for an agent's servers; requests are served concurrently, so a call may
\* begin while another is asleep.
start_server(id) ==
    /\ live
    /\ id \in servers
    /\ ~running[id]
    /\ ntask < MaxTasks
    /\ ntask' = ntask + 1
    /\ alive' = alive \cup {Task(id, ntask + 1)}
    /\ server_task' = [server_task EXCEPT ![id] = ntask + 1]
    /\ starting' = [starting EXCEPT ![id] = @ + 1]
    /\ UNCHANGED <<servers, running, closing>>

\* start_server after `await asyncio.sleep(1)`
start_server_wake(id) ==
    /\ starting[id] > 0
    /\ starting' = [starting EXCEPT ![id] = @ - 1]
    /\ running' = [running EXCEPT ![id] = TRUE]
    /\ UNCHANGED <<servers, server_task, alive, ntask, closing>>

\* _run_server: the server's scope raises, on entry or later
run_server_raises(t) ==
    /\ t \in alive
    /\ ~(closing.pc = "await" /\ t = closing.task)
    /\ alive' = alive \ {t}
    /\ running' = [running EXCEPT ![t.server] = FALSE]
    /\ UNCHANGED <<servers, server_task, starting, ntask, closing>>

\* _run_server of a cancelled task: CancelledError is raised inside the
\* server's scope, the scope is left, the id is marked not running and the
\* task ends
run_server_cancelled ==
    /\ closing.pc = "await"
    /\ closing.task \in alive
    /\ alive' = alive \ {closing.task}
    /\ running' = [running EXCEPT ![closing.task.server] = FALSE]
    /\ UNCHANGED <<servers, server_task, starting, ntask, closing>>

StartServer ==
    /\ \E id \in ServerIds : start_server(id)
    /\ UNCHANGED <<tree, stack, meeting, counters, live, state_file, clock,
                   ready, parked>>

StartServerWake ==
    /\ \E id \in ServerIds : start_server_wake(id)
    /\ UNCHANGED <<tree, stack, meeting, counters, live, state_file, clock,
                   ready, parked>>

RunServerCancelled ==
    /\ run_server_cancelled
    /\ UNCHANGED <<tree, stack, meeting, counters, live, state_file, clock,
                   ready, parked>>

RunServerRaises ==
    /\ \E t \in alive : run_server_raises(t)
    /\ UNCHANGED <<tree, stack, meeting, counters, live, state_file, clock,
                   ready, parked>>

-----------------------------------------------------------------------------
(* Agent.run and the tools *)

\* A response text is a sequence of words.
Responses == {<<"noted">>, <<"ready_to_move_on">>}

\* str.upper, word by word
UpperWord(w) ==
    CASE w = "ready_to_move_on" -> "READY_TO_MOVE_ON"
      [] w = "noted" -> "NOTED"
      [] OTHER -> w

Upper(text) == [i \in 1..Len(text) |-> UpperWord(text[i])]

\* token in text
Contains(token, text) == \E i \in 1..Len(text) : text[i] = token

ResponseEntry(text) == <<"response", "", text>>
ToolEntry(name, result) == <<"tool", name, result>>

\* dict.get(name, False) on accessible_tools
Accessible(ref, name) == name \in accessible_tools[ref].on

\* prepare_create_new_agent_tool: is the tool offered
prepare_create_new_agent_tool(ref) ==
    /\ Accessible(ref, "create_new_agent")
    /\ curr_depth(ref) < max_depth
    /\ curr_breadth(ref) < max_breadth

\* the test for children left out
PrepareMessageNoChildTest(ref) == Accessible(ref, "message_agent")

\* prepare_message_agent_tool
prepare_message_agent_tool(ref) ==
    /\ Accessible(ref, "message_agent")
    /\ children[ref] # <<>>

\* prepare_call_meeting_tool
prepare_call_meeting_tool(ref) ==
    /\ Accessible(ref, "call_meeting")
    /\ children[ref] # <<>>

\* prepare_internal_monologue_tool
prepare_internal_monologue_tool(ref) == Accessible(ref, "internal_monologue")

\* The prepare functions raise when the agent's key is gone from
\* Agency.agents (KeyError), when its depth cannot be computed (KeyError) and
\* when accessible_tools is a list (no .get).
PrepareRaises(id) ==
    \/ id \notin DOMAIN agents
    \/ /\ id \in DOMAIN agents
       /\ \/ curr_depth(agents[id]) = KeyError
          \/ accessible_tools[agents[id]].type # "dict"

\* The tools offered to the backend for one model request of agent `id`
OfferedTools(id) ==
    IF PrepareRaises(id) THEN {}
    ELSE LET ref == agents[id]
         IN  {t \in ToolNames :
                \/ t = "create_new_agent" /\ prepare_create_new_agent_tool(ref)
                \/ t = "message_agent" /\ prepare_message_agent_tool(ref)
                \/ t = "call_meeting" /\ prepare_call_meeting_tool(ref)
                \/ t = "internal_monologue"
                     /\ prepare_internal_monologue_tool(ref)}

Top == stack[Len(stack)]

Pop(s) == SubSeq(s, 1, Len(s) - 1)

SetTop(s, f) == [s EXCEPT ![Len(s)] = f]

\* Agent.run from its loop over the agent's servers to its await of the
\* backend: the history is copied and the first model request is prepared.
\* ncalls counts the tool calls of the whole request so far.  pc is "start"
\* while the run is in start_server's start-up wait for server_id, with the
\* ids todo still to look at; unstarted holds the ids whose start_server
\* call returned False ("Warning: Failed to start MCP server").
RunFrame(ref, prompt, caller, ncalls) ==
    [agent |-> ref,
     prompt |-> prompt,
     existing_history |-> message_history[ref],
     failed |-> PrepareRaises(ref),
     offered |-> OfferedTools(ref),
     new_messages |-> <<UserEntry(prompt)>>,
     ncalls |-> ncalls,
     caller |-> caller,
     pc |-> "backend",
     todo |-> <<>>,
     server_id |-> "",
     unstarted |-> {}]

\* Agent.run's loop `for server_id in self.mcp_server_ids` from the ids todo
\* on, up to the next start_server call that suspends: an id that is marked
\* running is passed over, start_server returns False at once for an id
\* that is not registered, and the loop goes on after the warning
RECURSIVE ensure_servers(_, _, _)
ensure_servers(todo, run, unstarted) ==
    IF todo = <<>>
    THEN [pc |-> "backend", todo |-> <<>>, server_id |-> "",
          unstarted |-> unstarted]
    ELSE IF run[Head(todo)]
    THEN ensure_servers(Tail(todo), run, unstarted)
    ELSE IF Head(todo) \notin servers
    THEN ensure_servers(Tail(todo), run, unstarted \cup {Head(todo)})
    ELSE [pc |-> "start", todo |-> Tail(todo), server_id |-> Head(todo),
          unstarted |-> unstarted]

\* the start_server calls a run of ref has still to wait for
StartsNeeded(ids, run) ==
    Cardinality({id \in Range(ids) : ~run[id] /\ id \in servers})

\* Agent.run begins on top of the runs base in flight
BeginRun(base, ref, prompt, caller, ncalls) ==
    LET r == ensure_servers(mcp_server_ids[ref], running, {})
        f == [RunFrame(ref, prompt, caller, ncalls)
                 EXCEPT !.pc = r.pc, !.todo = r.todo,
                        !.server_id = r.server_id, !.unstarted = r.unstarted]
    IN  /\ ntask + StartsNeeded(mcp_server_ids[ref], running) <= MaxTasks
        /\ stack' = Append(base, f)
        /\ IF r.pc = "start"
           THEN start_server(r.server_id)
           ELSE UNCHANGED manager

\* Agent.run after start_server's `await asyncio.sleep(1)`: the id is marked
\* running and the loop goes on
agent_run_wake ==
    /\ stack # <<>>
    /\ Top.pc = "start"
    /\ LET id == Top.server_id
           run == [running EXCEPT ![id] = TRUE]
           woken == [starting EXCEPT ![id] = @ - 1]
           r == ensure_servers(Top.todo, run, Top.unstarted)
           f == [RunFrame(Top.agent, Top.prompt, Top.caller, Top.ncalls)
                    EXCEPT !.pc = r.pc, !.todo = r.todo,
                           !.server_id = r.server_id,
                           !.unstarted = r.unstarted]
       IN  /\ stack' = SetTop(stack, f)
           /\ running' = run
           /\ IF r.pc = "start"
              THEN /\ ntask' = ntask + 1
                   /\ alive' = alive \cup {Task(r.server_id, ntask + 1)}
                   /\ server_task' =
                          [server_task EXCEPT ![r.server_id] = ntask + 1]
                   /\ starting' = [woken EXCEPT ![r.server_id] = @ + 1]
              ELSE /\ starting' = woken
                   /\ UNCHANGED <<ntask, alive, server_task>>
    /\ UNCHANGED <<tree, meeting, counters, live, state_file, servers,
                   closing, clock, ready, parked>>

\* The innermost run is awaiting its backend, unless call_meeting is between
\* two turns (then the innermost run is the host's, inside its tool call).
BackendActive == stack # <<>> /\ Top.pc = "backend" /\ meeting.pc # "turn"

\* the tool's return value reaches the calling run
ToolReturned(f, name, result) ==
    [f EXCEPT !.new_messages = Append(@, ToolEntry(name, result)),
              !.ncalls = @ + 1]

\* the history replaced by the new messages
ReplaceMessageHistory(ref, new_messages) ==
    [message_history EXCEPT ![ref] = new_messages]

\* Agent.save_message_history
save_message_history(ref, new_messages) ==
    [message_history EXCEPT ![ref] = @ \o new_messages]

\* POST /agent/{agent_id}/message -> message_agent_helper -> Agent.run
message_agent_http(agent_id) ==
    /\ live
    /\ closing.pc = "idle"
    /\ stack = <<>>
    /\ nmsg < MaxMessages
    /\ agent_id \in DOMAIN agents
    /\ BeginRun(<<>>, agents[agent_id], <<"message">>, "server", 0)
    /\ nmsg' = nmsg + 1
    /\ UNCHANGED <<tree, meeting, nmeet, nrem, live, state_file, clock,
                   ready, parked>>

\* the backend makes its next model request: the prepare functions run again
ModelRequest ==
    /\ BackendActive
    /\ ~Top.failed
    /\ stack' = SetTop(stack, [Top EXCEPT !.failed = PrepareRaises(Top.agent),
                                          !.offered = OfferedTools(Top.agent)])
    /\ stack' # stack
    /\ UNCHANGED <<tree, meeting, counters, aside>>

CanCall(name) ==
    /\ BackendActive
    /\ ~Top.failed
    /\ name \in Top.offered
    /\ Top.ncalls < MaxToolCalls

\* create_new_agent -> create_new_agent_helper.  The helper stores the
\* parent in an attribute `parent` that nothing reads: parent_id stays None.
create_new_agent_helper(parent) ==
    LET new_agent_id == IdStr(current_id)
        linked == LinkedParent(parent)
    IN  /\ current_id' = current_id + 1
        /\ agents' = (new_agent_id :> new_agent_id) @@ agents
        /\ accessible_tools' = (new_agent_id :> ToolsList) @@ accessible_tools
        /\ mcp_server_ids' = (new_agent_id :> <<>>) @@ mcp_server_ids
        /\ message_history' =
               (new_agent_id :> <<SystemEntry>>) @@ message_history
        /\ parent_id' = (new_agent_id :> None) @@ parent_id
        /\ children' =
               IF linked = None
               THEN (new_agent_id :> <<>>) @@ children
               ELSE (new_agent_id :> <<>>) @@
                    [children EXCEPT ![agents[parent]] =
                                         Append(@, new_agent_id)]

create_new_agent ==
    /\ CanCall("create_new_agent")
    /\ current_id < MaxId
    /\ create_new_agent_helper(Top.agent)
    /\ stack' = SetTop(stack, ToolReturned(Top, "create_new_agent",
                                           <<"Created agent">>))
    /\ UNCHANGED <<meeting, counters, aside>>

\* message_agent -> message_agent_helper, called as a tool
message_agent(agent_id) ==
    /\ CanCall("message_agent")
    /\ IF agent_id \notin DOMAIN agents
       THEN /\ stack' = SetTop(stack, ToolReturned(Top, "message_agent",
                                                   <<"does not exist">>))
            /\ UNCHANGED manager
       ELSE BeginRun(stack, agents[agent_id], <<"message">>, "tool",
                     Top.ncalls + 1)
    /\ UNCHANGED <<tree, meeting, counters, live, state_file, clock, ready, parked>>

-----------------------------------------------------------------------------
(* call_meeting *)

MaxTurnsInputs == {-1, 1, 2}

YOUR_TURN_PHRASE == <<"It is your turn to speak">>
InitializedEntry == UserEntry(<<"Meeting initialized">>)
ChildInstructions == UserEntry(<<"Meeting Instructions", "READY_TO_MOVE_ON">>)
HostInstructions == UserEntry(<<"Meeting Instructions", "READY_TO_END_MEETING">>)
EndedEntry == UserEntry(<<"Meeting has ended">>)

\* the ceiling left out
MaxRoundsUnclamped(max_turns, n) == max_turns * n

\* max_rounds = min(max_turns * len(participants), 15)
MaxRounds(max_turns, n) == Min(max_turns * n, ROUND_CEILING)

\* "READY_TO_END_MEETING" in response.upper() or "READY_TO_MOVE_ON" in ...
IsReady(response) ==
    \/ Contains("READY_TO_END_MEETING", Upper(response))
    \/ Contains("READY_TO_MOVE_ON", Upper(response))

\* agent.id if agent.id != temp_host_id else host_id
LoggingId(m, id) == IF id # m.temp_host_id THEN id ELSE m.host_id

AllDone(m) == Cardinality(m.agents_done) = Len(m.participants)

\* The original tools saved for a child, and what the child gets while the
\* meeting runs
SavedTools(child) == accessible_tools[child]
MeetingTools == ToolsDict({})

\* only the children that are still keys of Agency.agents get their tools
\* back
RestoredToolsOfKeys(m, child) ==
    IF child \in DOMAIN m.original_accessible_tools /\ child \in DOMAIN agents
    THEN m.original_accessible_tools[child]
    ELSE ToolsDict({})

\* the restore loop left out
RestoredToolsCleared(m, child) == ToolsDict({})

\* What the restore loop assigns to a child: original_accessible_tools.get
RestoredTools(m, child) ==
    IF child \in DOMAIN m.original_accessible_tools
    THEN m.original_accessible_tools[child]
    ELSE ToolsDict({})

\* finished participants passed over
AfterTurnSkipReady(m, broke) ==
    IF ~broke /\ m.pos < Len(m.participants)
          /\ m.participants[m.pos + 1] \notin m.agents_done
    THEN [finish |-> FALSE, round |-> m.round, pos |-> m.pos + 1]
    ELSE IF ~broke /\ m.pos + 1 < Len(m.participants)
    THEN [finish |-> FALSE, round |-> m.round, pos |-> m.pos + 2]
    ELSE IF m.turn >= m.max_rounds \/ m.round >= m.max_rounds \/ AllDone(m)
    THEN [finish |-> TRUE, round |-> m.round, pos |-> m.pos]
    ELSE [finish |-> FALSE, round |-> m.round + 1, pos |-> 1]

\* `if turn >= max_rounds: break` left out
AfterTurnNoTurnBudget(m, broke) ==
    IF ~broke /\ m.pos < Len(m.participants)
    THEN [finish |-> FALSE, round |-> m.round, pos |-> m.pos + 1]
    ELSE IF m.round >= m.max_rounds \/ AllDone(m)
    THEN [finish |-> TRUE, round |-> m.round, pos |-> m.pos]
    ELSE [finish |-> FALSE, round |-> m.round + 1, pos |-> 1]

\* Where the two loops go after the turn at (m.round, m.pos).  `broke` says
\* that the inner loop was left by its break.
AfterTurn(m, broke) ==
    IF ~broke /\ m.pos < Len(m.participants)
    THEN [finish |-> FALSE, round |-> m.round, pos |-> m.pos + 1]
    ELSE IF m.turn >= m.max_rounds
    THEN [finish |-> TRUE, round |-> m.round, pos |-> m.pos]
    ELSE IF m.round >= m.max_rounds
    THEN [finish |-> TRUE, round |-> m.round, pos |-> m.pos]
    ELSE IF AllDone(m)
    THEN [finish |-> TRUE, round |-> m.round, pos |-> m.pos]
    ELSE [finish |-> FALSE, round |-> m.round + 1, pos |-> 1]

\* The turn succeeded: the log and the ready set after it
OnResponse(m, id, response) ==
    [m EXCEPT !.discussion_log =
                  Append(@, [agent_id |-> LoggingId(m, id),
                             kind |-> "response", message |-> response]),
              !.agents_done = IF IsReady(response) THEN @ \cup {id} ELSE @]

\* the break of the inner loop after a successful turn
BreaksAfterResponse(m) == AllDone(m)

\* the failing participant not marked ready
OnExceptionNotReady(m, id) ==
    [m EXCEPT !.discussion_log =
                  Append(@, [agent_id |-> LoggingId(m, id),
                             kind |-> "error", message |-> <<"Error">>])]

\* The turn raised: the log and the ready set after it
OnException(m, id) ==
    [m EXCEPT !.discussion_log =
                  Append(@, [agent_id |-> LoggingId(m, id),
                             kind |-> "error", message |-> <<"Error">>]),
              !.agents_done = @ \cup {id}]

\* a break in the except branch
BreaksAfterExceptionAlways(m) == TRUE

\* the except branch has no break
BreaksAfterException(m) == FALSE

\* the response sent to the speaker as well
BroadcastAll(m, hist, id, response) ==
    [o \in DOMAIN hist |->
        IF o \in Range(m.participants)
        THEN Append(hist[o], <<"user", LoggingId(m, id), response>>)
        ELSE hist[o]]

\* the response sent to the host as well
BroadcastAndHost(m, hist, id, response) ==
    [o \in DOMAIN hist |->
        IF (o \in Range(m.participants) /\ o # id) \/ o = m.host_id
        THEN Append(hist[o], <<"user", LoggingId(m, id), response>>)
        ELSE hist[o]]

\* The histories after a response was sent to the other participants
Broadcast(m, hist, id, response) ==
    [o \in DOMAIN hist |->
        IF o \in Range(m.participants) /\ o # id
        THEN Append(hist[o], <<"user", LoggingId(m, id), response>>)
        ELSE hist[o]]

\* the temporary host left in Agency.agents
FinishKeepsTemp(m, tools, hist, stk) ==
    /\ accessible_tools' =
           [o \in DOMAIN tools |->
               IF o \in Range(m.children) THEN RestoredTools(m, o)
               ELSE tools[o]]
    /\ message_history' =
           [o \in DOMAIN hist |->
               IF o \in Range(m.children) THEN Append(hist[o], EndedEntry)
               ELSE hist[o]]
    /\ agents' = (m.temp_host_id :> m.temp_host_id) @@ agents
    /\ meeting' = [m EXCEPT !.pc = "done"]
    /\ stack' = SetTop(stk, ToolReturned(stk[Len(stk)], "call_meeting",
                                         <<"Meeting complete">>))

\* From "Final summary" to the return: the children get their tools back and
\* the end message, the temporary host leaves Agency.agents, and the host's
\* run receives the tool's result.  tools, hist and stk are the state the
\* coroutine has reached.
Finish(m, tools, hist, stk) ==
    /\ accessible_tools' =
           [o \in DOMAIN tools |->
               IF o \in Range(m.children) THEN RestoredTools(m, o)
               ELSE tools[o]]
    /\ message_history' =
           [o \in DOMAIN hist |->
               IF o \in Range(m.children) THEN Append(hist[o], EndedEntry)
               ELSE hist[o]]
    /\ agents' = [k \in DOMAIN agents \ {m.temp_host_id} |-> agents[k]]
    /\ meeting' = [m EXCEPT !.pc = "done"]
    /\ stack' = SetTop(stk, ToolReturned(stk[Len(stk)], "call_meeting",
                                         <<"Meeting complete">>))

\* The loops go on with the next turn, or the meeting finishes
Continue(m, broke, tools, hist, stk) ==
    LET next == AfterTurn(m, broke)
    IN  IF next.finish
        THEN Finish(m, tools, hist, stk)
        ELSE /\ meeting' = [m EXCEPT !.pc = "turn", !.round = next.round,
                                     !.pos = next.pos]
             /\ stack' = stk
             /\ accessible_tools' = tools
             /\ message_history' = hist
             /\ agents' = agents

\* the check for children left out
NoChildrenUnchecked(host) == FALSE

\* `if not children`
NoChildren(host) == children[host] = <<>>

\* call_meeting up to its first await.  pre_tools, pre_len and overlaps are
\* history fields: the children's tools in the state the call found, the
\* length of every participant's history when the first round begins, and
\* whether the call began while the meeting of the other message request,
\* on the same host, had not returned.  round counts the rounds entered.
call_meeting(max_turns) ==
    /\ UNCHANGED aside
    /\ CanCall("call_meeting")
    /\ meeting.pc \in {"idle", "done"}
    /\ LET host_id == Top.agent
       IN
       IF host_id \notin DOMAIN agents
       THEN \* KeyError: the tool raises and with it the run
            /\ stack' = SetTop(stack, [Top EXCEPT !.failed = TRUE])
            /\ UNCHANGED <<tree, meeting, counters>>
       ELSE IF NoChildren(agents[host_id])
       THEN /\ stack' = SetTop(stack, ToolReturned(Top, "call_meeting",
                                                   <<"No agents available">>))
            /\ UNCHANGED <<tree, meeting, counters>>
       ELSE
       LET host == agents[host_id]
           kids == children[host]
           temp == TempId(host_id)
           participants == <<temp>> \o kids
           hist == (temp :> message_history[host] \o
                            <<UserEntry(Top.prompt), InitializedEntry,
                              HostInstructions>>) @@
                   [o \in DOMAIN message_history |->
                        IF o \in Range(kids)
                        THEN message_history[o] \o
                             <<InitializedEntry, ChildInstructions>>
                        ELSE message_history[o]]
           m == [pc |-> "turn",
                 host_id |-> host_id,
                 temp_host_id |-> temp,
                 children |-> kids,
                 participants |-> participants,
                 original_accessible_tools |->
                     [c \in Range(kids) |-> SavedTools(c)],
                 discussion_log |->
                     <<[agent_id |-> temp, kind |-> "init",
                        message |-> <<"Meeting initialized">>]>>,
                 agents_done |-> {},
                 turn |-> 0,
                 max_turns |-> max_turns,
                 max_rounds |-> MaxRounds(max_turns, Len(participants)),
                 round |-> 0,
                 pos |-> 1,
                 pre_tools |-> [c \in Range(kids) |-> accessible_tools[c]],
                 pre_len |-> [p \in Range(participants) |-> Len(hist[p])],
                 overlaps |-> /\ parked.meeting.pc \in {"turn", "await"}
                              /\ parked.meeting.host_id = host_id]
           tools == (temp :> MeetingTools) @@
                    [o \in DOMAIN accessible_tools |->
                        IF o \in Range(kids) THEN MeetingTools
                        ELSE accessible_tools[o]]
       IN  /\ parent_id' = (temp :> None) @@ parent_id
           /\ children' = (temp :> <<>>) @@ children
           /\ mcp_server_ids' = (temp :> <<>>) @@ mcp_server_ids
           /\ IF m.max_rounds <= 0
              THEN Finish(m, tools, hist, stack)
              ELSE /\ agents' = (temp :> temp) @@ agents
                   /\ accessible_tools' = tools
                   /\ message_history' = hist
                   /\ meeting' = [m EXCEPT !.round = 1]
                   /\ stack' = stack
           /\ nmeet' = nmeet + 1
           /\ UNCHANGED <<current_id, nmsg, nrem>>

\* The inner loop's body up to `await agent.run(...)`
TurnStart ==
    /\ meeting.pc = "turn"
    /\ meeting' = [meeting EXCEPT !.pc = "await", !.turn = @ + 1]
    /\ BeginRun(stack, meeting.participants[meeting.pos], YOUR_TURN_PHRASE,
                "meeting", 0)
    /\ UNCHANGED <<tree, counters, live, state_file, clock, ready, parked>>

\* The backend answers the innermost run with a final text
BackendReturn(response) ==
    /\ BackendActive
    /\ ~Top.failed
    /\ LET f == Top
           hist == save_message_history(
                       f.agent, Append(f.new_messages, ResponseEntry(response)))
       IN  CASE f.caller = "server" ->
                  /\ stack' = Pop(stack)
                  /\ message_history' = hist
                  /\ UNCHANGED <<agents, accessible_tools, meeting>>
             [] f.caller = "tool" ->
                  /\ stack' = SetTop(Pop(stack),
                                     [ToolReturned(stack[Len(stack) - 1],
                                                   "message_agent", response)
                                         EXCEPT !.ncalls = f.ncalls])
                  /\ message_history' = hist
                  /\ UNCHANGED <<agents, accessible_tools, meeting>>
             [] f.caller = "meeting" ->
                  LET m == OnResponse(meeting, f.agent, response)
                  IN  Continue(m, BreaksAfterResponse(m), accessible_tools,
                               Broadcast(m, hist, f.agent, response),
                               Pop(stack))
    /\ UNCHANGED <<parent_id, children, mcp_server_ids, current_id, counters,
                   aside>>

\* no try/except around the turn: the exception reaches the HTTP handler
HandlerOutermost(i) == 1

\* the innermost frame, at or below i, that was not called as a tool: the
\* run whose caller catches the exception
RECURSIVE Handler(_)
Handler(i) == IF stack[i].caller # "tool" THEN i ELSE Handler(i - 1)

\* the user prompt of a failed request saved
BackendRaiseSaves ==
    /\ BackendActive
    /\ LET h == Handler(Len(stack))
           f == stack[h]
           below == SubSeq(stack, 1, h - 1)
       IN  IF f.caller = "server"
           THEN /\ stack' = below
                /\ message_history' =
                       save_message_history(f.agent, f.new_messages)
                /\ UNCHANGED <<agents, accessible_tools, meeting>>
           ELSE LET m == OnException(meeting, f.agent)
                IN  Continue(m, BreaksAfterException(m), accessible_tools,
                             message_history, below)
    /\ UNCHANGED <<parent_id, children, mcp_server_ids, current_id, counters,
                   aside>>

\* The backend call of the innermost run raises (or its prepare did)
BackendRaise ==
    /\ BackendActive
    /\ LET h == Handler(Len(stack))
           f == stack[h]
           below == SubSeq(stack, 1, h - 1)
       IN  IF f.caller = "server"
           THEN /\ stack' = below
                /\ UNCHANGED <<agents, accessible_tools, message_history,
                               meeting>>
           ELSE LET m == OnException(meeting, f.agent)
                IN  Continue(m, BreaksAfterException(m), accessible_tools,
                             message_history, below)
    /\ UNCHANGED <<parent_id, children, mcp_server_ids, current_id, counters,
                   aside>>

-----------------------------------------------------------------------------
(* The whole system *)

ParentInputs == {None} \cup DOMAIN agents

ServerCreate ==
    /\ current_id < MaxId
    /\ \E req_parent \in ParentInputs : create_agent(req_parent)

ServerRemove ==
    /\ nrem < MaxRemoves
    /\ \E agent_id \in DOMAIN agents : remove_agent(agent_id)

ServerMessage == \E agent_id \in DOMAIN agents : message_agent_http(agent_id)

ToolMessage == \E agent_id \in DOMAIN agents : message_agent(agent_id)

ToolMeeting ==
    /\ nmeet < MaxMeetings
    /\ \E max_turns \in MaxTurnsInputs : call_meeting(max_turns)

Respond == \E response \in Responses : BackendReturn(response)

Next ==
    \/ agent_run_wake
    \/ ServerCreate
    \/ ServerRemove
    \/ ServerMessage
    \/ ModelRequest
    \/ create_new_agent
    \/ ToolMessage
    \/ ToolMeeting
    \/ TurnStart
    \/ Respond
    \/ BackendRaise

Spec == Init /\ [][Next]_vars

-----------------------------------------------------------------------------
(* One host, its children and one meeting of any length, every backend     *)
(* invocation returning or raising                                          *)

RoundsTurnsInputs == {-1, 0, 1, 2, 8}

RoundsResponses == {<<"noted">>, <<"READY_TO_END_MEETING">>}

RoundsCreate ==
    /\ current_id < MaxRoundsId
    /\ stack = <<>>
    /\ create_agent(None)

RoundsMessage == nmsg = 0 /\ message_agent_http("0")

RoundsMeeting ==
    /\ nmeet < MaxMeetings
    /\ \E max_turns \in RoundsTurnsInputs : call_meeting(max_turns)

RoundsRespond == \E response \in RoundsResponses : BackendReturn(response)

NextRounds ==
    \/ agent_run_wake
    \/ RoundsCreate
    \/ RoundsMessage
    \/ RoundsMeeting
    \/ TurnStart
    \/ RoundsRespond
    \/ BackendRaise

SpecRounds == Init /\ [][NextRounds]_vars

\* Every backend invocation returns or raises, and the coroutine of
\* call_meeting is scheduled again when it can run.
SpecRoundsFair ==
    /\ SpecRounds
    /\ WF_vars(TurnStart)
    /\ WF_vars(agent_run_wake)
    /\ WF_vars(RoundsRespond \/ BackendRaise)

-----------------------------------------------------------------------------
(* The tree as the HTTP surface and the create_new_agent tool change it, no  *)
(* meeting                                                                   *)

LinksRemove ==
    /\ nrem < MaxLinksRemoves
    /\ \E agent_id \in DOMAIN agents : remove_agent(agent_id)

NextLinks ==
    \/ agent_run_wake
    \/ ServerCreate
    \/ LinksRemove
    \/ ServerMessage
    \/ ModelRequest
    \/ create_new_agent
    \/ Respond
    \/ BackendRaise

SpecLinks == Init /\ [][NextLinks]_vars

-----------------------------------------------------------------------------
(* Two message requests at once.  The server's handlers are coroutines of
   one event loop: while one request waits for its backend (or for a server
   to start) the loop runs the other.  stack and meeting are those of the
   request that runs; parked holds those of the request that waits.  The two
   temporary hosts of meetings on one host carry the same id, and stand
   here for one object. *)

OverlapTurnsInputs == {1}

\* the running coroutine is at an await (or there is none): between two
\* turns of a meeting there is no await
Suspended == meeting.pc \notin {"turn"}

\* the event loop goes on with the other request
Switch ==
    /\ Suspended
    /\ stack # <<>> \/ parked.stack # <<>>
    /\ stack' = parked.stack
    /\ meeting' = parked.meeting
    /\ parked' = [stack |-> stack, meeting |-> meeting]
    /\ UNCHANGED <<tree, counters, live, state_file, manager, clock, ready>>

OverlapCreate ==
    /\ current_id < MaxRoundsId
    /\ stack = <<>>
    /\ parked.stack = <<>>
    /\ create_agent(None)

OverlapMessage == message_agent_http("0")

OverlapMeeting ==
    /\ nmeet < MaxOverlapMeetings
    /\ \E max_turns \in OverlapTurnsInputs : call_meeting(max_turns)

NextOverlap ==
    \/ agent_run_wake
    \/ OverlapCreate
    \/ OverlapMessage
    \/ OverlapMeeting
    \/ TurnStart
    \/ RoundsRespond
    \/ BackendRaise
    \/ Switch

SpecOverlap == Init /\ [][NextOverlap]_vars

-----------------------------------------------------------------------------
(* MCPServerManager.wait_for_server_ready *)

\* the ids, timeouts and intervals the check is called with (Agency.run
\* passes timeout=120, interval=2; here the unit is one tick of the clock)
ReadyIds == ServerIds \cup {"mcp_server_unknown"}
Timeouts == {0, 1, 2, 3}
Intervals == {1, 2}

\* what a wait_for_server_ready call leaves alone
unwaited == <<tree, stack, meeting, counters, live, state_file, manager,
              parked>>

\* `while time.time() - start < timeout`: the next probe, or the timeout
ReadyLoop(r, now) ==
    IF now - r.start < r.timeout
    THEN [r EXCEPT !.pc = "probing", !.probes = @ + 1]
    ELSE [r EXCEPT !.pc = "returned", !.result = FALSE, !.returned_at = now]

\* wait_for_server_ready up to its first await
wait_for_server_ready(server_id, timeout, interval) ==
    /\ live
    /\ ready.pc = "idle"
    /\ LET r == [ready EXCEPT !.server_id = server_id, !.timeout = timeout,
                              !.interval = interval, !.start = clock]
       IN  ready' = IF server_id \notin servers
                    THEN [r EXCEPT !.pc = "returned", !.result = FALSE,
                                   !.returned_at = clock]
                    ELSE ReadyLoop(r, clock)
    /\ UNCHANGED <<clock, unwaited>>

\* time passes while the call waits for a probe or sleeps; at MaxClock the
\* clock stands for every later time
Tick ==
    /\ ready.pc \in {"probing", "sleeping"}
    /\ clock < MaxClock
    /\ clock' = clock + 1
    /\ UNCHANGED <<ready, unwaited>>

\* `await server.list_tools()` returns: the server is taken to be ready
list_tools_returns ==
    /\ ready.pc = "probing"
    /\ ready' = [ready EXCEPT !.pc = "returned", !.result = TRUE,
                              !.returned_at = clock]
    /\ UNCHANGED <<clock, unwaited>>

\* `await server.list_tools()` raises: the call sleeps for interval
list_tools_raises ==
    /\ ready.pc = "probing"
    /\ ready' = [ready EXCEPT !.pc = "sleeping",
                              !.wake = clock + ready.interval]
    /\ UNCHANGED <<clock, unwaited>>

\* `await asyncio.sleep(interval)` is over: back to the loop's test
sleep_ends ==
    /\ ready.pc = "sleeping"
    /\ clock >= Min(ready.wake, MaxClock)
    /\ ready' = ReadyLoop(ready, clock)
    /\ UNCHANGED <<clock, unwaited>>

WaitForServerReady ==
    \E server_id \in ReadyIds, timeout \in Timeouts, interval \in Intervals :
        wait_for_server_ready(server_id, timeout, interval)

NextReady ==
    \/ WaitForServerReady
    \/ Tick
    \/ list_tools_returns
    \/ list_tools_raises
    \/ sleep_ends

SpecReady == Init /\ [][NextReady]_vars

\* Time passes and a sleep ends; whether and when list_tools answers is up
\* to the server.
SpecReadyFair ==
    SpecReady /\ WF_vars(Tick) /\ WF_vars(sleep_ends)

-----------------------------------------------------------------------------
(* Saving and restoring *)

\* what pydantic raises
ValidationError == [kind |-> "ValidationError"]

\* Agent.save_state
Agent_save_state(ref) ==
    [id |-> ref,
     accessible_tools |-> accessible_tools[ref],
     message_history |-> message_history[ref],
     parent_id |-> parent_id[ref],
     child_ids |-> children[ref],
     mcp_server_ids |-> mcp_server_ids[ref]]

\* AgentState declares accessible_tools a Dict[str, bool]: the list [] of a
\* tool-created agent fails the validation
AgentStateValid(ref) == accessible_tools[ref].type = "dict"

\* Agency.save_state: one AgentState per value of Agency.agents, listed here
\* by the agent's id
save_state ==
    IF \E k \in DOMAIN agents : ~AgentStateValid(agents[k])
    THEN ValidationError
    ELSE [kind |-> "AgencyState",
          agency_id |-> "0",
          agents |-> [r \in {agents[k] : k \in DOMAIN agents} |->
                         Agent_save_state(r)],
          current_id |-> current_id,
          max_depth |-> max_depth,
          max_breadth |-> max_breadth,
          max_agents |-> max_agents]

\* a state file with the record of one agent taken out
DropRecord(file, id) ==
    [file EXCEPT !.agents = [r \in DOMAIN file.agents \ {id} |-> file.agents[r]]]

\* the files a start may be asked to load: the one saved, and the same with
\* one record other than the main agent's missing
StateFiles ==
    IF state_file = NoState THEN {}
    ELSE {state_file} \cup
         {DropRecord(state_file, id) :
             id \in DOMAIN state_file.agents \ {state_file.agency_id}}

\* the child ids whose record the restore finds; the others are only warned
\* about
LinkedChildren(file, child_ids) ==
    SelectSeq(child_ids, LAMBDA c : c \in DOMAIN file.agents)

\* Agency.__init__ from a state raises ValueError without the main agent
LoadRaises(file) == file.agency_id \notin DOMAIN file.agents

\* Agency.__init__ from a state: the agents, then the parent/child links
LoadedTree(file) ==
    [agents |-> [r \in DOMAIN file.agents |-> r],
     parent_id |-> [r \in DOMAIN file.agents |-> file.agents[r].parent_id],
     children |-> [r \in DOMAIN file.agents |->
                      LinkedChildren(file, file.agents[r].child_ids)],
     accessible_tools |->
         [r \in DOMAIN file.agents |-> file.agents[r].accessible_tools],
     message_history |->
         [r \in DOMAIN file.agents |-> file.agents[r].message_history],
     mcp_server_ids |->
         [r \in DOMAIN file.agents |-> file.agents[r].mcp_server_ids],
     current_id |-> file.current_id]

\* list(self._server_tasks.keys()): the ids that were started, in the order
\* in which Agent.run starts an agent's servers
KeysOrder == <<"mcp_server_playwright", "mcp_server_python">>

ServerTaskKeys == SelectSeq(KeysOrder, LAMBDA id : server_task[id] # NoTask)

\* the record of a stop_server call that has returned
Stopped(id, result) == [server_id |-> id, result |-> result, task |-> CurrentTask(id)]

\* stop_all_servers from the ids todo on, up to the next await that
\* suspends: stop_server returns False for an id that is not marked running,
\* and cancels and awaits the task of one that is; a task that has ended
\* already is awaited without suspending.
RECURSIVE stop_all_servers(_, _, _)
stop_all_servers(todo, run, log) ==
    IF todo = <<>>
    THEN [pc |-> "idle", running |-> run, stopped |-> log, todo |-> <<>>,
          server_id |-> ""]
    ELSE LET id == Head(todo)
         IN  IF ~(server_task[id] # NoTask /\ run[id])
             THEN stop_all_servers(Tail(todo), run,
                                   Append(log, Stopped(id, FALSE)))
             ELSE IF CurrentTask(id) \in alive
             THEN [pc |-> "await", running |-> run, stopped |-> log,
                   todo |-> Tail(todo), server_id |-> id]
             ELSE stop_all_servers(Tail(todo), [run EXCEPT ![id] = FALSE],
                                   Append(log, Stopped(id, TRUE)))

\* a new MCPServerManager.  The tasks and the start_server calls of the old
\* manager that nothing cancelled go on, on the old manager: they are not
\* tasks or calls of the new one.
NewManager(registered) ==
    /\ servers' = registered
    /\ running' = [id \in ServerIds |-> FALSE]
    /\ server_task' = [id \in ServerIds |-> NoTask]
    /\ alive' = {}
    /\ starting' = [id \in ServerIds |-> 0]

\* what the handler does once Agency.shutdown has returned with
\* _running_servers = run: stop_agency drops the agency, start_new_agency
\* constructs the new one, fresh or from the state file
AfterShutdown(then, run) ==
    IF then.kind = "stop"
    THEN /\ live' = FALSE
         /\ running' = run
         /\ UNCHANGED <<tree, servers, server_task, alive, starting>>
    ELSE IF then.file = NoState
    THEN /\ agents' = ("0" :> "0")
         /\ parent_id' = ("0" :> None)
         /\ children' = ("0" :> <<>>)
         /\ accessible_tools' = ("0" :> MainAccessibleTools)
         /\ message_history' = ("0" :> <<SystemEntry>>)
         /\ mcp_server_ids' = ("0" :> <<>>)
         /\ current_id' = 1
         /\ NewManager(ServerIds)
         /\ live' = TRUE
    ELSE IF LoadRaises(then.file)
    THEN /\ running' = run
         /\ UNCHANGED <<tree, live, servers, server_task, alive, starting>>
    ELSE LET t == LoadedTree(then.file)
         IN  /\ agents' = t.agents
             /\ parent_id' = t.parent_id
             /\ children' = t.children
             /\ accessible_tools' = t.accessible_tools
             /\ message_history' = t.message_history
             /\ mcp_server_ids' = t.mcp_server_ids
             /\ current_id' = t.current_id
             /\ NewManager({})
             /\ live' = TRUE

\* Agency.shutdown -> stop_all_servers from the ids todo on, and the rest
\* of the handler if no stop_server call suspends
shutdown(then, todo, run, log) ==
    LET r == stop_all_servers(todo, run, log)
    IN  /\ closing' = [pc |-> r.pc, todo |-> r.todo, server_id |-> r.server_id,
                       task |-> IF r.pc = "await" THEN CurrentTask(r.server_id)
                                ELSE NotClosing.task,
                       then |-> then, stopped |-> r.stopped]
        /\ IF r.pc = "await"
           THEN /\ running' = r.running
                /\ UNCHANGED <<tree, live, servers, server_task, alive,
                               starting>>
           ELSE AfterShutdown(then, r.running)
        /\ UNCHANGED ntask

\* stop_server goes on without waiting for the task to end
StopServerResumesAtOnce == closing.pc = "await"

\* `await self._server_tasks[server_id]` is over: the task has ended
TaskAwaited == closing.pc = "await" /\ closing.task \notin alive

\* stop_server after the await, and stop_all_servers and the handler from
\* there
stop_server_resume ==
    /\ TaskAwaited
    /\ shutdown(closing.then, closing.todo,
                [running EXCEPT ![closing.server_id] = FALSE],
                Append(closing.stopped,
                       [server_id |-> closing.server_id, result |-> TRUE,
                        task |-> closing.task]))
    /\ UNCHANGED <<stack, meeting, counters, state_file, clock, ready, parked>>

\* POST /agency/stop, with no request in flight
stop_agency ==
    /\ live
    /\ stack = <<>>
    /\ closing.pc = "idle"
    /\ UNCHANGED <<stack, meeting, counters, clock, ready, parked>>
    /\ IF save_state = ValidationError
       THEN UNCHANGED <<tree, live, state_file, manager>>
       ELSE /\ state_file' = save_state
            /\ shutdown([kind |-> "stop", file |-> NoState], ServerTaskKeys,
                        running, <<>>)

\* POST /agency/start, with no request in flight.  file is NoState for a
\* fresh agency, else the state file to load.
start_new_agency(file) ==
    /\ stack = <<>>
    /\ closing.pc = "idle"
    /\ UNCHANGED <<stack, meeting, counters, state_file, clock, ready, parked>>
    /\ IF live
       THEN shutdown([kind |-> "start", file |-> file], ServerTaskKeys,
                     running, <<>>)
       ELSE /\ AfterShutdown([kind |-> "start", file |-> file], running)
            /\ UNCHANGED <<ntask, closing>>

StartFresh == start_new_agency(NoState)

StartFromFile == \E file \in StateFiles : start_new_agency(file)

NextState ==
    \/ agent_run_wake
    \/ RunServerCancelled
    \/ stop_server_resume
    \/ ServerCreate
    \/ LinksRemove
    \/ ServerMessage
    \/ ModelRequest
    \/ create_new_agent
    \/ Respond
    \/ BackendRaise
    \/ stop_agency
    \/ StartFresh
    \/ StartFromFile

SpecState == Init /\ [][NextState]_vars

-----------------------------------------------------------------------------
(* The server manager of an agency that is started and stopped *)

NextServers ==
    \/ StartServer
    \/ StartServerWake
    \/ RunServerRaises
    \/ RunServerCancelled
    \/ stop_server_resume
    \/ stop_agency
    \/ StartFresh

SpecServers == Init /\ [][NextServers]_vars

-----------------------------------------------------------------------------
(* A tree of any size and the runs of its agents *)

NextGate ==
    \/ agent_run_wake
    \/ TreeCreate
    \/ ServerMessage
    \/ ModelRequest
    \/ Respond
    \/ BackendRaise

SpecGate == Init /\ [][NextGate]_vars

-----------------------------------------------------------------------------
(* Properties *)

MeetingRunning == meeting.pc \in {"turn", "await"}
MeetingStarted == meeting.pc # "idle"

ErrorEntries(m, id) ==
    {i \in 1..Len(m.discussion_log) :
        /\ m.discussion_log[i].kind = "error"
        /\ m.discussion_log[i].agent_id = LoggingId(m, id)}

LastEntry(m) == m.discussion_log[Len(m.discussion_log)]

\* C1: once call_meeting has returned, every child participant's
\* accessible_tools equals the value it had when the meeting was called.
C1_ToolsRestored ==
    meeting.pc = "done" =>
        \A c \in Range(meeting.children) :
            accessible_tools[c] = meeting.pre_tools[c]

\* a meeting with a failing turn has returned, and a child of it had tools
C1_Witness ==
    /\ meeting.pc = "done"
    /\ \E i \in 1..Len(meeting.discussion_log) :
          meeting.discussion_log[i].kind = "error"
    /\ \E c \in Range(meeting.children) : meeting.pre_tools[c].on # {}

\* C2: no participant's turn is in flight once the ready set holds every
\* participant.
C2_StopsWhenAllReady == meeting.pc = "await" => ~AllDone(meeting)

\* C3: a meeting that runs eventually returns, when every backend invocation
\* returns or raises.
C3_MeetingCompletes == MeetingRunning ~> (meeting.pc = "done")

\* a meeting has returned in which every invocation raised
C3_Witness ==
    /\ meeting.pc = "done"
    /\ meeting.turn >= 2
    /\ \A i \in 2..Len(meeting.discussion_log) :
          meeting.discussion_log[i].kind = "error"

\* C4 as stated: the rounds entered never exceed
\* min(max_turns * |participants|, 15).
C4_RoundsWithinMaxRounds ==
    MeetingStarted =>
        meeting.round <= Min(meeting.max_turns * Len(meeting.participants),
                             ROUND_CEILING)

\* C4 amended: max_rounds is min(max_turns * |participants|, 15), 6 for
\* max_turns 2 and 3 participants, and the rounds entered never exceed it
\* or, when it is negative, 0.
C4_RoundsBounded ==
    /\ MaxRounds(2, 3) = 6
    /\ MeetingStarted =>
          /\ meeting.max_rounds =
                 Min(meeting.max_turns * Len(meeting.participants),
                     ROUND_CEILING)
          /\ \/ meeting.round <= meeting.max_rounds
             \/ meeting.round = 0

\* a meeting cut by the ceiling has used up its rounds and returned
C4_Witness ==
    /\ meeting.pc = "done"
    /\ meeting.max_turns * Len(meeting.participants) > ROUND_CEILING
    /\ meeting.turn >= meeting.max_rounds
    /\ ~AllDone(meeting)

\* C5: a turn whose invocation raises adds one error entry for the speaker
\* and nothing else to the log, sends no history entry to anybody, puts the
\* speaker in the ready set, and the loop goes on with the next participant
\* of the round.
C5_TurnFailureIsolated ==
    [][(meeting.pc = "await" /\ BackendRaise) =>
          LET speaker == meeting.participants[meeting.pos]
          IN  /\ meeting'.discussion_log =
                     Append(meeting.discussion_log, LastEntry(meeting'))
              /\ LastEntry(meeting').kind = "error"
              /\ LastEntry(meeting').agent_id = LoggingId(meeting, speaker)
              /\ meeting'.agents_done = meeting.agents_done \cup {speaker}
              /\ \A p \in Range(meeting.participants) :
                    \/ message_history'[p] = message_history[p]
                    \/ /\ meeting'.pc = "done"
                       /\ message_history'[p] =
                              Append(message_history[p], EndedEntry)
              /\ meeting'.pc \in {"turn", "done"}
              /\ stack' # <<>>
              /\ meeting.pos < Len(meeting.participants) =>
                    /\ meeting'.pc = "turn"
                    /\ meeting'.round = meeting.round
                    /\ meeting'.pos = meeting.pos + 1]_vars

\* after a failed turn the meeting is about to give the next participant
\* its turn
C5_Witness ==
    /\ meeting.pc = "turn"
    /\ LastEntry(meeting).kind = "error"
    /\ meeting.pos > 1

\* C6: the log of a meeting holds at most one error entry per participant.
C6_OneErrorPerParticipant ==
    MeetingStarted =>
        \A p \in Range(meeting.participants) :
            Cardinality(ErrorEntries(meeting, p)) <= 1

\* C7: call_meeting on a host without children returns its refusal and
\* changes neither the agents, their histories and tools, nor any meeting.
C7_NoParticipantsNoChange ==
    [][(/\ \E max_turns \in MaxTurnsInputs : call_meeting(max_turns)
        /\ Top.agent \in DOMAIN agents
        /\ children[agents[Top.agent]] = <<>>) =>
          /\ UNCHANGED <<tree, meeting>>
          /\ Len(stack') = Len(stack)
          /\ stack'[Len(stack)].new_messages =
                 Append(Top.new_messages,
                        ToolEntry("call_meeting", <<"No agents available">>))
      ]_vars

\* a host without children has called call_meeting
C7_Witness ==
    /\ stack # <<>>
    /\ \E i \in 1..Len(Top.new_messages) :
          Top.new_messages[i] =
              ToolEntry("call_meeting", <<"No agents available">>)

\* the capacity of `parent` is used up
CapacityExceeded(parent) ==
    \/ curr_depth(agents[parent]) + 1 > max_depth
    \/ curr_breadth(agents[parent]) >= max_breadth
    \/ Cardinality(DOMAIN agents) >= max_agents

\* C8: no agent is created under a parent whose capacity is used up: the
\* id counter, the agents and the parent's children stay as they are.
C8_CapacityEnforced ==
    [][\A parent \in DOMAIN agents :
          (/\ CapacityExceeded(parent)
           /\ parent \in DOMAIN agents'
           /\ children'[agents[parent]] # children[agents[parent]]
           /\ Len(children'[agents[parent]]) > Len(children[agents[parent]]))
          => current_id' = current_id]_vars

\* C9: Agency.agents never holds more than max_agents agents.
C9_TotalWithinMaxAgents == Cardinality(DOMAIN agents) <= max_agents

\* C10: no agent of Agency.agents has more than max_breadth children.
C10_BreadthWithinMax ==
    \A k \in DOMAIN agents : curr_breadth(agents[k]) <= max_breadth

\* C11: every agent of Agency.agents is seen by curr_depth at a depth of at
\* most max_depth, and every child listed by an agent is seen one level
\* below it.
C11_DepthSeen ==
    \A k \in DOMAIN agents :
        /\ curr_depth(agents[k]) <= max_depth
        /\ \A c \in Range(children[agents[k]]) :
              c \in DOMAIN agents =>
                  curr_depth(agents[c]) = curr_depth(agents[k]) + 1

\* C12: DELETE of an existing agent removes exactly its key from
\* Agency.agents, and every former child stays in Agency.agents with
\* parent_id None.
C12_RemoveDeletesExactlyOne ==
    [][\A id \in DOMAIN agents :
          remove_agent(id) =>
              /\ DOMAIN agents' = DOMAIN agents \ {id}
              /\ Cardinality(DOMAIN agents') = Cardinality(DOMAIN agents) - 1
              /\ \A c \in Range(children[agents[id]]) :
                    /\ c \in DOMAIN agents'
                    /\ parent_id'[agents'[c]] = None]_vars

\* C13: every key in an agent's children and every parent_id that is not
\* None is a key of Agency.agents.
C13_EdgesNameAgents ==
    \A k \in DOMAIN agents :
        /\ \A c \in Range(children[agents[k]]) : c \in DOMAIN agents
        /\ parent_id[agents[k]] # None => parent_id[agents[k]] \in DOMAIN agents

\* C14: no agent has two Agent.run invocations in flight.
C14_OneInvocationPerAgent ==
    \A i, j \in 1..Len(stack) :
        i # j => stack[i].agent # stack[j].agent

IsPrefix(s, t) == Len(s) <= Len(t) /\ SubSeq(t, 1, Len(s)) = s

\* the step constructs the Agent object o: the temporary host of a meeting
\* is a new object in every meeting, under the id an earlier one had
Constructs(o) == nmeet' = nmeet + 1 /\ o = meeting'.temp_host_id

\* C15: every step leaves the history of every agent it does not construct a
\* prefix of what it becomes; a run starts with the agent's whole history,
\* and a run that was messaged and returns appends to the history the prompt
\* first and the response last.
C15_HistoryAppendOnly ==
    [][/\ \A o \in DOMAIN message_history :
             /\ o \in DOMAIN message_history'
             /\ ~Constructs(o) =>
                    IsPrefix(message_history[o], message_history'[o])
       /\ Len(stack') > Len(stack) =>
             stack'[Len(stack')].existing_history =
                 message_history[stack'[Len(stack')].agent]
       /\ \A response \in Responses :
             (BackendReturn(response) /\ Top.caller # "meeting") =>
                 LET old == message_history[Top.agent]
                     new == message_history'[Top.agent]
                 IN  /\ Len(new) >= Len(old) + 2
                     /\ new[Len(old) + 1] = UserEntry(Top.prompt)
                     /\ new[Len(new)] = ResponseEntry(response)
                     /\ SubSeq(new, Len(old) + 1, Len(new) - 1) =
                            Top.new_messages]_vars

\* an agent that was messaged twice has answered both
C15_Witness ==
    /\ stack = <<>>
    /\ \E o \in DOMAIN message_history :
          /\ Len(message_history[o]) >= 5
          /\ message_history[o][Len(message_history[o])][1] = "response"

\* C18: the temporary host's id is never a key of Agency.agents.
C18_TempHostNeverInAgents ==
    \A k \in DOMAIN agents : \A h \in DOMAIN agents : k # TempId(h)

\* C16: with no request in flight, saving the agency and loading what was
\* saved gives the same agents with the same parent_id, children,
\* accessible_tools and message_history, and the same id counter and caps.
C16_RoundTrip ==
    (live /\ stack = <<>>) =>
        LET file == save_state
        IN  /\ file.kind = "AgencyState"
            /\ ~LoadRaises(file)
            /\ LET t == LoadedTree(file)
               IN  /\ DOMAIN t.agents = DOMAIN agents
                   /\ \A k \in DOMAIN agents :
                         /\ t.parent_id[k] = parent_id[agents[k]]
                         /\ t.children[k] = children[agents[k]]
                         /\ t.accessible_tools[k] = accessible_tools[agents[k]]
                         /\ t.message_history[k] = message_history[agents[k]]
                         /\ t.mcp_server_ids[k] = mcp_server_ids[agents[k]]
                   /\ t.current_id = current_id
                   /\ file.max_depth = max_depth
                   /\ file.max_breadth = max_breadth
                   /\ file.max_agents = max_agents

\* a record of the file names, as parent or as child, an id without record
Dangling(file) ==
    \E r \in DOMAIN file.agents :
        \/ /\ file.agents[r].parent_id # None
           /\ file.agents[r].parent_id \notin DOMAIN file.agents
        \/ \E c \in Range(file.agents[r].child_ids) : c \notin DOMAIN file.agents

\* C17: a start from a state file with a dangling id completes, and in the
\* agency it builds every child key and every parent_id that is not None is
\* a key of Agency.agents.
C17_DanglingDropped ==
    [][\A file \in StateFiles :
          (start_new_agency(file) /\ Dangling(file)) =>
              /\ live'
              /\ DOMAIN agents' = DOMAIN file.agents
              /\ \A k \in DOMAIN agents' :
                    /\ \A c \in Range(children'[agents'[k]]) :
                          c \in DOMAIN agents'
                    /\ parent_id'[agents'[k]] # None =>
                          parent_id'[agents'[k]] \in DOMAIN agents']_vars

\* C19: an id with no start_server call asleep that is marked running has a
\* task that has not ended.
C19_RunningHasLiveTask ==
    \A id \in ServerIds :
        (starting[id] = 0 /\ running[id]) => CurrentTask(id) \in alive

\* C20: no id has two tasks that have not ended.
C20_OneTaskPerServer ==
    \A id \in ServerIds :
        Cardinality({t \in alive : t.server = id}) <= 1

\* the step prepares the tools of the innermost run: a run begins or makes
\* its next model request
Prepares ==
    /\ stack' # <<>>
    /\ stack'[Len(stack')].pc = "backend"
    /\ Len(stack') > Len(stack) \/ ModelRequest \/ agent_run_wake

\* the run prepared in this step
Prepared == stack'[Len(stack')]

\* C26: whenever the tools of a run are prepared and no prepare function
\* raises, create_new_agent is offered exactly when the agent's accessible_tools
\* enable it, its depth is below max_depth, it has fewer than max_breadth
\* children and Agency.agents holds fewer than max_agents agents.
C26_CreateOfferedIffAllowed ==
    [][(Prepares /\ ~Prepared.failed) =>
          ("create_new_agent" \in Prepared.offered <=>
              /\ "create_new_agent" \in accessible_tools[Prepared.agent].on
              /\ curr_depth(Prepared.agent) < max_depth
              /\ Len(children[Prepared.agent]) < max_breadth
              /\ Cardinality(DOMAIN agents) < max_agents)]_vars

TurnSpeaker(m, k) == m.participants[((k - 1) % Len(m.participants)) + 1]

OthersResponses(m, p) ==
    LET spoke == IF p = m.temp_host_id THEN m.host_id ELSE p
        kept == SelectSeq(m.discussion_log,
                          LAMBDA e : e.kind = "response" /\ e.agent_id # spoke)
    IN  [i \in 1..Len(kept) |-> <<"user", kept[i].agent_id, kept[i].message>>]

\* the entries p's history received from other speakers since the meeting
\* began
Received(m, p) ==
    SelectSeq(SubSeq(message_history[p], m.pre_len[p] + 1,
                     Len(message_history[p])),
              LAMBDA e : e[1] = "user" /\ e[2] # "")

\* C29: while a meeting runs and when it has returned, what every
\* participant's history has received from other speakers is exactly the
\* responses of the log that it did not speak itself, in log order.
C29_BroadcastsMatchLog ==
    MeetingStarted =>
        \A p \in Range(meeting.participants) :
            Received(meeting, p) = OthersResponses(meeting, p)

\* two participants have answered and the meeting goes on
C29_Witness ==
    /\ MeetingRunning
    /\ \E i, j \in 1..Len(meeting.discussion_log) :
          /\ meeting.discussion_log[i].kind = "response"
          /\ meeting.discussion_log[j].kind = "response"
          /\ meeting.discussion_log[i].agent_id #
                 meeting.discussion_log[j].agent_id

C23_FirstSuccessOrTimeout ==
    [][/\ list_tools_returns =>
             /\ ready'.pc = "returned" /\ ready'.result
             /\ ready'.probes = ready.probes
       /\ ready.pc = "returned" => ready' = ready
       /\ (ready'.pc = "returned" /\ ready'.result) =>
             ready'.returned_at - ready'.start < ready'.timeout
       /\ (ready'.pc = "returned" /\ ~ready'.result
              /\ ready'.server_id \in servers) =>
             ready'.returned_at - ready'.start >= ready'.timeout
       /\ (ready.pc = "sleeping" /\ ready'.pc = "probing") =>
             clock >= ready.wake]_vars

\* C24: every wait_for_server_ready call returns.
C24_AlwaysReturns == (ready.pc # "idle") ~> (ready.pc = "returned")

\* the stop_server calls that return in this step of a shutdown
Returning ==
    LET from == IF closing.pc = "idle" THEN 1 ELSE Len(closing.stopped) + 1
    IN  {closing'.stopped[i] : i \in from..Len(closing'.stopped)}

\* C21: when a stop_server call of POST /agency/stop returns True, the task
\* that _server_tasks held for the id has ended and the id is marked not
\* running; when it returns False (the id was not marked running), the id's
\* mark, its task in _server_tasks and that task are as they were.
C21_StopCancelsAndAwaits ==
    [][((stop_agency \/ stop_server_resume) /\ closing'.then.kind = "stop") =>
          \A e \in Returning :
              IF e.result
              THEN /\ e.task \notin alive'
                   /\ ~running'[e.server_id]
              ELSE /\ running'[e.server_id] = running[e.server_id]
                   /\ server_task'[e.server_id] = server_task[e.server_id]
                   /\ (e.task \in alive') = (e.task \in alive)]_vars

\* a shutdown has stopped one server after waiting for its task, and found
\* another not running
C21_Witness ==
    /\ closing.pc = "idle"
    /\ closing.then.kind = "stop"
    /\ \E i, j \in 1..Len(closing.stopped) :
          /\ closing.stopped[i].result
          /\ ~closing.stopped[j].result

\* C22: when the shutdown of POST /agency/stop has returned, no id is marked
\* running and no _run_server task of the manager is alive.
C22_StopAllStopsEverything ==
    [][(live /\ ~live') =>
          /\ alive' = {}
          /\ \A id \in ServerIds : ~running'[id]]_vars

\* C25: no run awaits its backend after a start_server call for one of its
\* agent's servers has returned False.
C25_NoBackendWithoutServer ==
    \A i \in 1..Len(stack) :
        stack[i].pc = "backend" => stack[i].unstarted = {}

\* the tools a turn could use to create an agent or to reach another one
TreeTools == {"create_new_agent", "message_agent", "call_meeting"}

\* C31: while a meeting runs, the accessible_tools of every child of the
\* meeting are the empty dict and no turn of a child is offered
\* create_new_agent, message_agent or call_meeting; no step of a child's turn
\* calls one of these tools.
C31_ChildrenToolsCleared ==
    [][/\ MeetingRunning' =>
             /\ \A c \in Range(meeting'.children) :
                   /\ accessible_tools'[c].type = "dict"
                   /\ accessible_tools'[c].on = {}
             /\ \A i \in 1..Len(stack') :
                   (stack'[i].caller = "meeting"
                       /\ stack'[i].agent \in Range(meeting'.children)) =>
                      stack'[i].offered \cap TreeTools = {}
       /\ (create_new_agent \/ ToolMessage \/ ToolMeeting) =>
             ~(Top.caller = "meeting" /\ Top.agent \in Range(meeting.children))
      ]_vars

\* call_meeting returns in this step
MeetingReturns == meeting'.pc = "done" /\ (MeetingRunning \/ nmeet' # nmeet)

\* C33: the participants of a meeting are the temporary host and the host's
\* children when call_meeting begins, and stay so while agents are created
\* and removed; every turn goes to the participant at the loop's position;
\* when the meeting returns every child of the list, removed or not, has the
\* accessible_tools it had before and the "Meeting has ended" entry last in
\* its history.
C33_ParticipantsFixed ==
    [][/\ nmeet' # nmeet =>
             /\ meeting'.children = children[agents[meeting'.host_id]]
             /\ meeting'.participants =
                    <<meeting'.temp_host_id>> \o meeting'.children
       /\ (MeetingRunning /\ nmeet' = nmeet) =>
             /\ meeting'.participants = meeting.participants
             /\ meeting'.children = meeting.children
       /\ TurnStart =>
             stack'[Len(stack')].agent = meeting.participants[meeting.pos]
       /\ MeetingReturns =>
             \A c \in Range(meeting'.children) :
                 /\ accessible_tools'[c] = meeting'.pre_tools[c]
                 /\ message_history'[c][Len(message_history'[c])] = EndedEntry
      ]_vars

\* a meeting has returned after one of its children, which had tools, was
\* removed from Agency.agents
C33_Witness ==
    /\ meeting.pc = "done"
    /\ Len(meeting.discussion_log) > 1
    /\ \E c \in Range(meeting.children) :
          /\ c \notin DOMAIN agents
          /\ meeting.pre_tools[c].on # {}

\* C34: when call_meeting returns, the temporary host's id is no key of
\* Agency.agents; from the call to the return, the steps that are no
\* create_agent and no remove_agent request leave the other keys as they
\* are.
C34_TempHostDiscarded ==
    [][/\ MeetingReturns => meeting'.temp_host_id \notin DOMAIN agents'
       /\ ((MeetingRunning \/ nmeet' # nmeet)
              /\ ~(ServerCreate \/ ServerRemove)) =>
             DOMAIN agents' \ {meeting'.temp_host_id} =
                 DOMAIN agents \ {meeting'.temp_host_id}]_vars

\* a meeting has returned with the ready set full, with its turns used up,
\* or after a failed turn
C34_Witness ==
    /\ meeting.pc = "done"
    /\ meeting.turn > 0
    /\ \/ AllDone(meeting)
       \/ meeting.turn >= meeting.max_rounds
    /\ \E i \in 1..Len(meeting.discussion_log) :
          meeting.discussion_log[i].kind = "error"

\* c is listed in p's children exactly when c's parent_id is p
EdgesAgree ==
    \A p \in DOMAIN agents : \A c \in DOMAIN agents :
        (c \in Range(children[agents[p]])) <=> (parent_id[agents[c]] = p)

\* following parent_id from key k reaches, in at most n steps, an agent
\* without parent
RECURSIVE ReachesRoot(_, _)
ReachesRoot(k, n) ==
    /\ k \in DOMAIN agents
    /\ \/ parent_id[agents[k]] = None
       \/ n > 0 /\ ReachesRoot(parent_id[agents[k]], n - 1)

\* C35: in every state the children and the parent_id of the agents agree,
\* and every agent's chain of parent_id ends at an agent without parent.
C35_TreeConsistent ==
    /\ EdgesAgree
    /\ \A k \in DOMAIN agents : ReachesRoot(k, Cardinality(DOMAIN agents))

\* ceil(a / b) for b > 0
CeilDiv(a, b) == (a + b - 1) \div b

\* C36: the turns of a meeting stay below max_rounds + |participants| and
\* its rounds within ceil(max_rounds / |participants|).
C36_TurnsBelowBudget ==
    MeetingStarted =>
        /\ meeting.turn < meeting.max_rounds + Len(meeting.participants)
        /\ meeting.round <=
               CeilDiv(meeting.max_rounds, Len(meeting.participants))

\* C36 amended: when max_rounds is positive the turns stay below
\* max_rounds + |participants|, the rounds within
\* ceil(max_rounds / |participants|), and no round begins once the turn
\* counter has reached max_rounds; when max_rounds is zero or negative
\* (max_turns <= 0) there is no turn and no round.
C36_TurnsBounded ==
    MeetingStarted =>
        IF meeting.max_rounds > 0
        THEN /\ meeting.turn < meeting.max_rounds + Len(meeting.participants)
             /\ meeting.round <=
                    CeilDiv(meeting.max_rounds, Len(meeting.participants))
             /\ (meeting.round - 1) * Len(meeting.participants)
                    < meeting.max_rounds
        ELSE /\ meeting.max_turns <= 0
             /\ meeting.turn = 0
             /\ meeting.round = 0
             /\ Len(meeting.discussion_log) = 1

\* a meeting has stopped at the end of a round with more turns taken than
\* max_rounds
C36_Witness ==
    /\ meeting.pc = "done"
    /\ meeting.max_rounds > 0
    /\ meeting.turn > meeting.max_rounds
    /\ ~AllDone(meeting)

\* the host of the meeting that runs, begins or returns in this step
StepHost == IF nmeet' # nmeet THEN meeting'.host_id ELSE meeting.host_id

\* C37: from the call of call_meeting to its return, no step changes the
\* host's message_history or its accessible_tools.
C37_HostUntouched ==
    [][(MeetingRunning \/ nmeet' # nmeet) =>
          /\ message_history'[StepHost] = message_history[StepHost]
          /\ accessible_tools'[StepHost] = accessible_tools[StepHost]]_vars

\* a meeting in which two participants answered has returned
C37_Witness ==
    /\ meeting.pc = "done"
    /\ \E i, j \in 1..Len(meeting.discussion_log) :
          /\ meeting.discussion_log[i].kind = "response"
          /\ meeting.discussion_log[j].kind = "response"
          /\ meeting.discussion_log[i].agent_id = meeting.host_id
          /\ meeting.discussion_log[j].agent_id # meeting.host_id

\* C38: when the backend call of a POST /agent/{agent_id}/message request
\* raises, the request ends at once (no run is left in flight, none is begun
\* again) and no message_history changes.
C38_FailedMessageLeavesHistory ==
    [][(BackendRaise /\ stack[Handler(Len(stack))].caller = "server") =>
          /\ stack' = <<>>
          /\ message_history' = message_history
          /\ nmsg' = nmsg]_vars

\* a message request has failed: none is in flight and no history has grown
C38_Witness ==
    /\ nmsg > 0
    /\ stack = <<>>
    /\ \A o \in Objects : Len(message_history[o]) = 1

\* C39: the main agent's id is a key of Agency.agents, and the state saved
\* loads without error.
C39_RootPresent ==
    /\ "0" \in DOMAIN agents
    /\ save_state # ValidationError => ~LoadRaises(save_state)

\* the meeting, of the two that overlapped, that began first
FirstMeeting == IF meeting.overlaps THEN parked.meeting ELSE meeting

\* C32: when two call_meeting calls on one host overlapped and both have
\* returned, every child has the accessible_tools it had before the first
\* of them began.
C32_OverlapRestoresTools ==
    (/\ meeting.pc = "done"
     /\ parked.meeting.pc = "done"
     /\ meeting.overlaps \/ parked.meeting.overlaps) =>
        \A c \in Range(FirstMeeting.children) :
            accessible_tools[c] = FirstMeeting.pre_tools[c]

====
